---- MODULE Spec2Model ----
(***************************************************************************)
(* Model of pycstbox.homeautomation.core: BasicAction, Scenario and        *)
(* ScenariosManager, with the event manager mock-up of the unit tests as   *)
(* the event sink and a two-entry file system behind load/save, and of the *)
(* request handlers of pycstbox.webservices.services.homeautomation.       *)
(***************************************************************************)
EXTENDS Integers, Sequences, FiniteSets, TLC

VARIABLES
    scenario,     \* the Scenario object under test: [label, actions] (Scenario._label, Scenario._actions)
    events,       \* calls received by the event manager, oldest first (MockUpEventManager.emitEvent)
    pc,           \* "idle" while a test builds its scenario, "exec" while Scenario.execute
                  \* runs its loop, "done" once the call under test has returned or raised
    idx,          \* position of the loop of Scenario.execute in _actions (1-based)
    other,        \* a second Scenario, result of Scenario.from_dict
    scenarios,    \* ScenariosManager._scenarios: id -> Scenario
    before,       \* ScenariosManager._scenarios as it was when the last call on the store began
    files,        \* the file system: path -> [kind, doc]
    result,       \* outcome of the last call: what was called, with what, and the exception raised
    ret,          \* the value returned by the last call that returned one
    handlers,     \* the request handlers of the web service: handler -> [pc, mgr, status, op, id],
                  \* mgr being the _scenarios of the ScenariosManager of the handler
    settings,     \* the settings of the web service: [config_path]
    last_save     \* the handler whose save_scenarios wrote last (0: none yet)

vars == <<scenario, events, pc, idx, other, scenarios, before, files, result, ret,
          handlers, settings, last_save>>

wsVars == <<handlers, settings, last_save>>

----------------------------------------------------------------------------
(* Bounds *)

MaxActions == 3

----------------------------------------------------------------------------
(* Python values. A value is a record with a type tag k: None, an int or a *)
(* str. Records of one shape keep values of different types comparable.    *)

None == [k |-> "none", i |-> 0, s |-> ""]
I(n) == [k |-> "int", i |-> n, s |-> ""]
S(str) == [k |-> "str", i |-> 0, s |-> str]

\* Python truth value: None, 0 and '' are false.
Truthy(v) == (v.k = "int" /\ v.i # 0) \/ (v.k = "str" /\ v.s # "")

Digit == <<"0", "1", "2", "3", "4", "5", "6", "7", "8", "9">>

RECURSIVE IntToStr(_)
IntToStr(n) ==
    IF n < 0 THEN "-" \o IntToStr(0 - n)
    ELSE IF n < 10 THEN Digit[n + 1]
    ELSE IntToStr(n \div 10) \o Digit[(n % 10) + 1]

\* str(v)
PyStr(v) ==
    CASE v.k = "none" -> S("None")
      [] v.k = "int" -> S(IntToStr(v.i))
      [] OTHER -> v

\* The ints whose decimal form int() is asked to parse in this model.
Parsable == 0 .. 99

\* int(v): [err, val]
PyInt(v) ==
    CASE v.k = "none" -> [err |-> "TypeError", val |-> None]
      [] v.k = "int" -> [err |-> "none", val |-> v]
      [] OTHER ->
            IF \E n \in Parsable : IntToStr(n) = v.s
            THEN [err |-> "none", val |-> I(CHOOSE n \in Parsable : IntToStr(n) = v.s)]
            ELSE [err |-> "ValueError", val |-> None]

----------------------------------------------------------------------------
(* BasicAction *)

NoAction == [verb |-> None, target |-> None, data |-> None, label |-> None]

\* BasicAction._interpret_param(verb, parameter): [err, val]
interpret_param(verb, parameter) ==
    IF verb = S("switch")
    THEN [err |-> "none", val |-> IF Truthy(parameter) THEN S("on") ELSE S("off")]
    ELSE IF verb = S("dim")
    THEN LET n == PyInt(parameter)
         IN  IF n.err # "none" THEN n
             ELSE [err |-> "none", val |-> S(IntToStr(n.val.i) \o "%")]
    ELSE [err |-> "none", val |-> parameter]

\* verb + ' ' + target + ' ' + param: str + non-str raises TypeError
derived_label(verb, target, param) ==
    IF verb.k = "str" /\ target.k = "str" /\ param.k = "str"
    THEN [err |-> "none", val |-> S(verb.s \o " " \o target.s \o " " \o param.s)]
    ELSE [err |-> "TypeError", val |-> None]

\* Mutant of BasicAction: verb and target are not checked
BasicAction_unchecked(verb, target, data, label) ==
    IF Truthy(label)
    THEN [err |-> "none",
          val |-> [verb |-> verb, target |-> target, data |-> data, label |-> label]]
    ELSE LET p == interpret_param(verb, data)
             l == derived_label(verb, target, p.val)
         IN  IF p.err # "none" THEN [err |-> p.err, val |-> NoAction]
             ELSE IF l.err # "none" THEN [err |-> l.err, val |-> NoAction]
             ELSE [err |-> "none",
                   val |-> [verb |-> verb, target |-> target, data |-> data, label |-> l.val]]

\* BasicAction(verb, target, data, label): [err, val]
BasicAction(verb, target, data, label) ==
    IF ~Truthy(verb) \/ ~Truthy(target)
    THEN [err |-> "ValueError", val |-> NoAction]
    ELSE IF Truthy(label)
    THEN [err |-> "none",
          val |-> [verb |-> verb, target |-> target, data |-> data, label |-> label]]
    ELSE LET p == interpret_param(verb, data)
             l == derived_label(verb, target, p.val)
         IN  IF p.err # "none" THEN [err |-> p.err, val |-> NoAction]
             ELSE IF l.err # "none" THEN [err |-> l.err, val |-> NoAction]
             ELSE [err |-> "none",
                   val |-> [verb |-> verb, target |-> target, data |-> data, label |-> l.val]]

\* Mutant of BasicAction_execute: the data is handed over as it is, not as a str
BasicAction_execute_raw(action) == <<action.verb, action.target, action.data>>

\* BasicAction.execute: the event handed to event_manager.emitEvent
BasicAction_execute(action) == <<action.verb, action.target, PyStr(action.data)>>

----------------------------------------------------------------------------
(* Python objects passed as arguments: t is the type, truthy the truth      *)
(* value (None and '' are false; a namedtuple of four fields is true), v   *)
(* the value when the object is a BasicAction.                             *)

NoneObj == [t |-> "NoneType", truthy |-> FALSE, v |-> NoAction]
StrObj == [t |-> "str", truthy |-> TRUE, v |-> NoAction]        \* a non-empty str
EmptyStrObj == [t |-> "str", truthy |-> FALSE, v |-> NoAction]  \* the str ''
ActionObj(a) == [t |-> "BasicAction", truthy |-> TRUE, v |-> a]

(* Python dicts. keys is the set of keys present; the field of an absent   *)
(* key is None.                                                            *)

ActionKeys == {"verb", "target", "data", "label"}
ScenarioKeys == {"label", "actions"}

ActionDict(keys, verb, target, data, label) ==
    [keys |-> keys,
     verb |-> IF "verb" \in keys THEN verb ELSE None,
     target |-> IF "target" \in keys THEN target ELSE None,
     data |-> IF "data" \in keys THEN data ELSE None,
     label |-> IF "label" \in keys THEN label ELSE None]

ScenarioDict(keys, label, actions) ==
    [keys |-> keys,
     label |-> IF "label" \in keys THEN label ELSE None,
     actions |-> IF "actions" \in keys THEN actions ELSE <<>>]

\* namedtuple._asdict()
asdict(a) == ActionDict(ActionKeys, a.verb, a.target, a.data, a.label)

\* d.get(key, None)
dict_get(d, key) == IF key \in d.keys THEN d[key] ELSE None

----------------------------------------------------------------------------
(* Scenario *)

\* Scenario(label, actions): the list is copied
Scenario(label, actions) == [label |-> label, actions |-> actions]

NoScenario == Scenario(None, <<>>)

\* Scenario.as_dict
as_dict(s) ==
    ScenarioDict(ScenarioKeys, s.label,
                 [i \in 1 .. Len(s.actions) |-> asdict(s.actions[i])])

\* Mutant of action_from_cfg: the stored label is not handed to BasicAction
action_from_cfg_nolabel(action) ==
    IF "verb" \notin action.keys \/ "target" \notin action.keys
    THEN [err |-> "KeyError", val |-> NoAction]
    ELSE BasicAction(action.verb, action.target, dict_get(action, "data"), None)

\* One element of the list comprehension of Scenario.from_dict: [err, val]
action_from_cfg(action) ==
    IF "verb" \notin action.keys \/ "target" \notin action.keys
    THEN [err |-> "KeyError", val |-> NoAction]
    ELSE BasicAction(action.verb, action.target,
                     dict_get(action, "data"), dict_get(action, "label"))

\* The list comprehension of Scenario.from_dict, left to right; the first
\* failure ends it: [err, val]
RECURSIVE actions_from_cfg(_)
actions_from_cfg(actions_cfg) ==
    IF actions_cfg = <<>> THEN [err |-> "none", val |-> <<>>]
    ELSE LET a == action_from_cfg(Head(actions_cfg))
         IN  IF a.err # "none" THEN [err |-> a.err, val |-> <<>>]
             ELSE LET rest == actions_from_cfg(Tail(actions_cfg))
                  IN  IF rest.err # "none" THEN rest
                      ELSE [err |-> "none", val |-> <<a.val>> \o rest.val]

\* Scenario.from_dict(d): [err, val]
from_dict(d) ==
    IF "label" \notin d.keys \/ "actions" \notin d.keys
    THEN [err |-> "KeyError", val |-> NoScenario]
    ELSE LET acts == actions_from_cfg(d.actions)
         IN  IF acts.err # "none" THEN [err |-> acts.err, val |-> NoScenario]
             ELSE [err |-> "none", val |-> Scenario(d.label, acts.val)]

----------------------------------------------------------------------------
(* The outcome of a call *)

Result(op, err, why, id, path, action) ==
    [op |-> op, err |-> err, why |-> why, id |-> id, path |-> path, action |-> action]

NoResult == Result("", "none", "", "", "", NoAction)

\* No call has returned a value yet
NoRet == <<>>

\* MockUpEventManager.events_count and last_event
events_count == Len(events)
last_event == events[Len(events)]

----------------------------------------------------------------------------
(* Inputs of the scenario operations *)

\* Arguments (verb, target, data, label) given to BasicAction(...)
ActionInputs ==
    { <<S("switch"), S("kitchen"), I(1), None>>,
      <<S("switch"), S("living"), I(0), None>>,
      <<S("dim"), S("bedroom"), I(50), None>>,
      <<S("nop"), S("none"), S(""), S("scen01.action")>>,
      <<S("nop"), S("none"), None, S("idle")>>,
      <<S("dim"), S("bedroom"), None, None>>,
      <<S(""), S("kitchen"), I(1), None>>,
      <<S("switch"), None, I(1), None>>,
      <<S("nop"), S("none"), None, None>> }

ScenarioLabels == {S("scenario 1"), S("")}

SwitchOffLiving ==
    ActionDict(ActionKeys, S("switch"), S("living"), I(0), S("switch off living lights"))
DimBedroom == ActionDict({"verb", "target", "data"}, S("dim"), S("bedroom"), I(50), None)

\* Definitions passed to Scenario.update: complete, with an action lacking
\* its verb, without the list of actions, and with an action whose verb is ''
DefInputs ==
    { ScenarioDict(ScenarioKeys, S("test scenario 01"), <<SwitchOffLiving, DimBedroom>>),
      ScenarioDict(ScenarioKeys, S("test scenario 02"),
                   <<SwitchOffLiving, ActionDict({"target"}, None, S("living"), None, None)>>),
      ScenarioDict({"label"}, S("test scenario 03"), <<>>),
      ScenarioDict(ScenarioKeys, S("test scenario 04"),
                   <<SwitchOffLiving,
                     ActionDict(ActionKeys, S(""), S("living"), I(0), S("no verb"))>>) }

\* Arguments of Scenario.update: a list of actions or a dict. t is the type,
\* truthy the truth value (an empty list is false), items the list, d the dict
ListObj(l) == [t |-> "list", truthy |-> l # <<>>, items |-> l, d |-> as_dict(NoScenario)]
DictObj(d) == [t |-> "dict", truthy |-> TRUE, items |-> <<>>, d |-> d]

KitchenOn == BasicAction(S("switch"), S("kitchen"), I(1), None).val
LivingOff == BasicAction(S("switch"), S("living"), I(0), None).val

ListInputs == {<<>>, <<KitchenOn>>, <<LivingOff, KitchenOn>>}

UpdateInputs == {ListObj(l) : l \in ListInputs} \cup {DictObj(d) : d \in DefInputs}

\* The event manager passed to execute: None, or a MockUpEventManager
SinkInputs == {"None", "MockUpEventManager"}

----------------------------------------------------------------------------
(* Operations on the scenario under test *)

storeVars == <<scenarios, before, files>>

\* Mutant of add_action: the action is put in front of the others
add_action_prepend(action) ==
    /\ pc = "idle"
    /\ Len(scenario.actions) < MaxActions
    /\ IF ~action.truthy
       THEN /\ result' = Result("add_action", "ValueError", "", "", "", action.v)
            /\ UNCHANGED scenario
       ELSE IF action.t # "BasicAction"
       THEN /\ result' = Result("add_action", "TypeError", "", "", "", action.v)
            /\ UNCHANGED scenario
       ELSE /\ scenario' = [scenario EXCEPT !.actions = <<action.v>> \o @]
            /\ result' = Result("add_action", "none", "", "", "", action.v)
    /\ UNCHANGED <<events, pc, idx, other, storeVars, ret, wsVars>>

\* Scenario.add_action(action)
add_action(action) ==
    /\ pc = "idle"
    /\ Len(scenario.actions) < MaxActions
    /\ IF ~action.truthy
       THEN /\ result' = Result("add_action", "ValueError", "", "", "", action.v)
            /\ UNCHANGED scenario
       ELSE IF action.t # "BasicAction"
       THEN /\ result' = Result("add_action", "TypeError", "", "", "", action.v)
            /\ UNCHANGED scenario
       ELSE /\ scenario' = [scenario EXCEPT !.actions = Append(@, action.v)]
            /\ result' = Result("add_action", "none", "", "", "", action.v)
    /\ UNCHANGED <<events, pc, idx, other, storeVars, ret, wsVars>>

\* scenario.add_action(BasicAction(verb, target, data, label)), as the tests do
AddAction ==
    \E in \in ActionInputs :
        LET a == BasicAction(in[1], in[2], in[3], in[4])
        IN  IF a.err # "none"
            THEN /\ pc = "idle"
                 /\ result' = Result("BasicAction", a.err, "", "", "",
                                     [verb |-> in[1], target |-> in[2],
                                      data |-> in[3], label |-> in[4]])
                 /\ UNCHANGED <<scenario, events, pc, idx, other, storeVars, ret, wsVars>>
            ELSE add_action(ActionObj(a.val))

\* scenario.add_action(x) with x no BasicAction
AddNoAction == \E x \in {NoneObj, StrObj, EmptyStrObj} : add_action(x)

\* BasicAction(...).execute(event_manager) on a new mock-up; the sink may raise
ActionExecute ==
    \E in \in ActionInputs, raises \in BOOLEAN :
        LET a == BasicAction(in[1], in[2], in[3], in[4])
        IN  /\ pc = "idle"
            /\ a.err = "none"
            /\ IF raises
               THEN /\ events' = <<>>
                    /\ result' = Result("action_execute", "SinkError", "", "", "", a.val)
               ELSE /\ events' = <<BasicAction_execute(a.val)>>
                    /\ result' = Result("action_execute", "none", "", "", "", a.val)
            /\ pc' = "done"
            /\ UNCHANGED <<scenario, idx, other, storeVars, ret, wsVars>>

\* Scenario.execute(event_manager): the argument check, then the loop is
\* entered. The event manager is None or a new MockUpEventManager, which has
\* received no event yet.
ExecuteBegin ==
    \E sink \in SinkInputs :
        /\ pc = "idle"
        /\ IF sink = "None"
           THEN /\ result' = Result("execute", "ValueError", "", "", "", NoAction)
                /\ pc' = "done"
                /\ UNCHANGED <<events, idx>>
           ELSE /\ pc' = "exec"
                /\ idx' = 1
                /\ events' = <<>>
                /\ result' = Result("execute", "running", "", "", "", NoAction)
        /\ UNCHANGED <<scenario, other, storeVars, ret, wsVars>>

\* Mutant of ExecuteStep: the loop runs from the last action to the first
ExecuteStepReversed ==
    /\ pc = "exec"
    /\ idx <= Len(scenario.actions)
    /\ events' = Append(events,
                        BasicAction_execute(scenario.actions[Len(scenario.actions) + 1 - idx]))
    /\ idx' = idx + 1
    /\ UNCHANGED <<scenario, pc, other, storeVars, result, ret, wsVars>>

\* One turn of the loop: action.execute(event_manager) returns
ExecuteStep ==
    /\ pc = "exec"
    /\ idx <= Len(scenario.actions)
    /\ events' = Append(events, BasicAction_execute(scenario.actions[idx]))
    /\ idx' = idx + 1
    /\ UNCHANGED <<scenario, pc, other, storeVars, result, ret, wsVars>>

\* Mutant of ExecuteRaise: the exception is caught and the loop goes on
ExecuteRaiseSwallowed ==
    /\ pc = "exec"
    /\ idx <= Len(scenario.actions)
    /\ idx' = idx + 1
    /\ result' = Result("execute", "SinkError", "", "", "", scenario.actions[idx])
    /\ UNCHANGED <<scenario, events, pc, other, storeVars, ret, wsVars>>

\* One turn of the loop: emitEvent raises, and the exception leaves execute
ExecuteRaise ==
    /\ pc = "exec"
    /\ idx <= Len(scenario.actions)
    /\ pc' = "done"
    /\ result' = Result("execute", "SinkError", "", "", "", scenario.actions[idx])
    /\ UNCHANGED <<scenario, events, idx, other, storeVars, ret, wsVars>>

\* The loop is over: execute returns
ExecuteReturn ==
    /\ pc = "exec"
    /\ idx > Len(scenario.actions)
    /\ pc' = "done"
    /\ result' = Result("execute", "none", "", "", "", NoAction)
    /\ UNCHANGED <<scenario, events, idx, other, storeVars, ret, wsVars>>

\* other = Scenario.from_dict(scenario.as_dict())
FromDictAsDict ==
    LET r == from_dict(as_dict(scenario))
    IN  /\ pc = "idle"
        /\ other' = r.val
        /\ result' = Result("from_dict", r.err, "", "", "", NoAction)
        /\ pc' = "done"
        /\ UNCHANGED <<scenario, events, idx, storeVars, ret, wsVars>>

\* The first update of the class body: def update(self, actions). The name is
\* bound again further down, so no call reaches this one.
Scenario_update_list(arg) ==
    /\ pc = "idle"
    /\ IF ~arg.truthy
       THEN /\ result' = Result("update", "ValueError", arg.t, "", "", NoAction)
            /\ UNCHANGED scenario
       ELSE /\ scenario' = [scenario EXCEPT !.actions = arg.items]
            /\ result' = Result("update", "none", arg.t, "", "", NoAction)
    /\ pc' = "done"
    /\ UNCHANGED <<events, idx, other, storeVars, ret, wsVars>>

\* self.from_dict(d) with the argument of update: d['label'] on a list raises
\* TypeError
from_dict_arg(arg) ==
    IF arg.t = "list" THEN [err |-> "TypeError", val |-> NoScenario]
    ELSE from_dict(arg.d)

\* Mutant of Scenario_update_dict: the label is stored before the actions are
\* parsed
Scenario_update_dict_label_first(arg) ==
    LET new_s == from_dict_arg(arg)
    IN  /\ pc = "idle"
        /\ result' = Result("update", new_s.err, arg.t, "", "", NoAction)
        /\ IF new_s.err # "none"
           THEN /\ scenario' = [scenario EXCEPT !.label = IF "label" \in arg.d.keys
                                                          THEN arg.d.label ELSE @]
                /\ UNCHANGED other
           ELSE /\ other' = new_s.val
                /\ scenario' = new_s.val
        /\ pc' = "done"
        /\ UNCHANGED <<events, idx, storeVars, ret, wsVars>>

\* The second update of the class body: def update(self, d)
Scenario_update_dict(arg) ==
    LET new_s == from_dict_arg(arg)
    IN  /\ pc = "idle"
        /\ result' = Result("update", new_s.err, arg.t, "", "", NoAction)
        /\ IF new_s.err # "none"
           THEN UNCHANGED <<scenario, other>>
           ELSE /\ other' = new_s.val
                /\ scenario' = Scenario(new_s.val.label, new_s.val.actions)
        /\ pc' = "done"
        /\ UNCHANGED <<events, idx, storeVars, ret, wsVars>>

\* scenario.update(arg): the class holds the update defined last
Scenario_update(arg) == Scenario_update_dict(arg)

UpdateScenario == \E arg \in UpdateInputs : Scenario_update(arg)

\* Scenario.clear(): self._actions.clear(). The module runs under Python 2
\* (file(), iteritems()), whose lists have no clear method: AttributeError
Scenario_clear ==
    /\ pc = "idle"
    /\ result' = Result("clear", "AttributeError", "", "", "", NoAction)
    /\ pc' = "done"
    /\ UNCHANGED <<scenario, events, idx, other, storeVars, ret, wsVars>>

\* The object the actions property returns: the list of the scenario itself
actions_property == "self._actions"

\* lst = scenario.actions; lst.append(a): the caller changes the list it got
ActionsAppend ==
    \E in \in ActionInputs :
        LET a == BasicAction(in[1], in[2], in[3], in[4])
        IN  /\ pc = "idle"
            /\ a.err = "none"
            /\ Len(scenario.actions) < MaxActions
            /\ IF actions_property = "self._actions"
               THEN scenario' = [scenario EXCEPT !.actions = Append(@, a.val)]
               ELSE UNCHANGED scenario
            /\ result' = Result("actions.append", "none", "", "", "", a.val)
            /\ pc' = "done"
            /\ UNCHANGED <<events, idx, other, storeVars, ret, wsVars>>

\* lst = scenario.actions; lst.pop(): the caller removes the last element
ActionsPop ==
    /\ pc = "idle"
    /\ scenario.actions # <<>>
    /\ IF actions_property = "self._actions"
       THEN scenario' = [scenario EXCEPT !.actions = SubSeq(@, 1, Len(@) - 1)]
       ELSE UNCHANGED scenario
    /\ result' = Result("actions.pop", "none", "", "", "",
                        scenario.actions[Len(scenario.actions)])
    /\ pc' = "done"
    /\ UNCHANGED <<events, idx, other, storeVars, ret, wsVars>>

\* BasicAction(verb, target, data, label): ret is the action built
Construct ==
    \E in \in ActionInputs :
        LET a == BasicAction(in[1], in[2], in[3], in[4])
        IN  /\ pc = "idle"
            /\ result' = Result("BasicAction", a.err, "", "", "",
                                [verb |-> in[1], target |-> in[2],
                                 data |-> in[3], label |-> in[4]])
            /\ IF a.err = "none" THEN ret' = a.val ELSE UNCHANGED ret
            /\ pc' = "done"
            /\ UNCHANGED <<scenario, events, idx, other, storeVars, wsVars>>

InitScenario ==
    /\ scenario \in {Scenario(l, <<>>) : l \in ScenarioLabels}
    /\ events = <<>>
    /\ pc = "idle"
    /\ idx = 1
    /\ other = NoScenario
    /\ scenarios = <<>>
    /\ before = <<>>
    /\ files = <<>>
    /\ result = NoResult
    /\ ret = NoRet
    /\ handlers = <<>>
    /\ settings = <<>>
    /\ last_save = ""

\* TestScenario.setUp: the next test starts with a new event manager and a new,
\* empty scenario
setUp ==
    /\ pc = "done"
    /\ \E l \in ScenarioLabels : scenario' = Scenario(l, <<>>)
    /\ events' = <<>>
    /\ pc' = "idle"
    /\ idx' = 1
    /\ other' = NoScenario
    /\ result' = NoResult
    /\ ret' = NoRet
    /\ UNCHANGED <<storeVars, wsVars>>

NextScenario ==
    \/ AddAction
    \/ AddNoAction
    \/ ActionExecute
    \/ ExecuteBegin
    \/ ExecuteStep
    \/ ExecuteRaise
    \/ ExecuteReturn
    \/ FromDictAsDict
    \/ UpdateScenario
    \/ Scenario_clear
    \/ ActionsAppend
    \/ ActionsPop
    \/ Construct
    \/ setUp

SpecScenario == InitScenario /\ [][NextScenario]_vars

----------------------------------------------------------------------------
(* Claims about BasicAction and Scenario, checked under SpecScenario *)

\* The event an action is expected to send: (verb, target, str(data))
ExpectedEvent(a) == <<a.verb, a.target, PyStr(a.data)>>

\* C1: Scenario.execute on a scenario holding a1..an makes the sink receive
\* exactly n events, one per action, in the order a1..an: while the loop runs
\* the sink holds the events of the actions before the loop position, and
\* when execute has returned it holds one event per action, in order.
C1_ExecuteInOrder ==
    /\ pc = "exec" =>
          /\ idx \in 1 .. Len(scenario.actions) + 1
          /\ events = [i \in 1 .. idx - 1 |-> ExpectedEvent(scenario.actions[i])]
    /\ (pc = "done" /\ result.op = "execute" /\ result.err = "none") =>
          /\ events_count = Len(scenario.actions)
          /\ events = [i \in 1 .. Len(scenario.actions) |->
                          ExpectedEvent(scenario.actions[i])]

\* C1 witness: execute has returned on three actions, not all the same
C1_Witness ==
    /\ pc = "done" /\ result.op = "execute" /\ result.err = "none"
    /\ Len(scenario.actions) = 3
    /\ scenario.actions[1] # scenario.actions[2]
    /\ scenario.actions[2] # scenario.actions[3]
    /\ events_count = 3

\* C2: when the sink raises on the k-th action the failure leaves execute at
\* once: the sink holds the events of actions 1..k-1 and no other (no later
\* event, no rollback), and no step of execute changes the action list.
C2_RaiseStopsExecute ==
    /\ [](result.op = "execute" /\ result.err = "SinkError" =>
             /\ pc = "done"
             /\ idx \in 1 .. Len(scenario.actions)
             /\ result.action = scenario.actions[idx]
             /\ events = [i \in 1 .. idx - 1 |-> ExpectedEvent(scenario.actions[i])])
    /\ [][pc = "exec" => scenario' = scenario /\ (pc' = "done" => events' = events)]_vars

\* C2 witness: the sink raised on the 2nd of 3 actions; one event was received
C2_Witness ==
    /\ pc = "done" /\ result.op = "execute" /\ result.err = "SinkError"
    /\ Len(scenario.actions) = 3 /\ idx = 2 /\ events_count = 1

LastExecuted ==
    IF result.op = "action_execute" THEN result.action
    ELSE scenario.actions[Len(scenario.actions)]

\* C4: after executing an action, directly or as the last action of a
\* scenario, the event last recorded by the sink is (verb, target, data) with
\* the data as given at construction.
C4_LastEventHoldsData ==
    (/\ pc = "done" /\ result.op \in {"action_execute", "execute"}
     /\ result.err = "none" /\ events # <<>>) =>
        last_event = <<LastExecuted.verb, LastExecuted.target, LastExecuted.data>>

\* C6: Scenario.from_dict(s.as_dict()) succeeds and has the label of s and
\* an action sequence of the same length, equal to that of s action by
\* action in verb, target, data and label.
C6_FromDictAsDict ==
    result.op = "from_dict" =>
        /\ result.err = "none"
        /\ other.label = scenario.label
        /\ Len(other.actions) = Len(scenario.actions)
        /\ \A i \in 1 .. Len(scenario.actions) :
              /\ other.actions[i].verb = scenario.actions[i].verb
              /\ other.actions[i].target = scenario.actions[i].target
              /\ other.actions[i].data = scenario.actions[i].data
              /\ other.actions[i].label = scenario.actions[i].label

\* C6 witness: a round trip of three actions, one with a label of its own and
\* one with a derived label
C6_Witness ==
    /\ result.op = "from_dict" /\ result.err = "none"
    /\ Len(other.actions) = 3
    /\ other.actions[1].label = S("scen01.action")
    /\ other.actions[2].label = S("dim bedroom 50%")

----------------------------------------------------------------------------
(* JSON. A JSON value is null, a number or a string; an object keeps the   *)
(* shape of the dict it was dumped from, with JSON values in its fields.   *)

JNull == [k |-> "null", i |-> 0, s |-> ""]
JNum(n) == [k |-> "number", i |-> n, s |-> ""]
JStr(str) == [k |-> "string", i |-> 0, s |-> str]

\* Mutant of py_to_json: a false value (0, '') is written as null
py_to_json_falsy(v) ==
    CASE v.k = "int" /\ v.i # 0 -> JNum(v.i)
      [] v.k = "str" /\ v.s # "" -> JStr(v.s)
      [] OTHER -> JNull

\* json.dump of a value
py_to_json(v) ==
    CASE v.k = "none" -> JNull
      [] v.k = "int" -> JNum(v.i)
      [] OTHER -> JStr(v.s)

\* json.load of a value
json_to_py(j) ==
    CASE j.k = "null" -> None
      [] j.k = "number" -> I(j.i)
      [] OTHER -> S(j.s)

\* json.dump of the dict of an action, and json.load of the object
action_to_json(d) ==
    [keys |-> d.keys, verb |-> py_to_json(d.verb), target |-> py_to_json(d.target),
     data |-> py_to_json(d.data), label |-> py_to_json(d.label)]

action_of_json(o) ==
    ActionDict(o.keys, json_to_py(o.verb), json_to_py(o.target),
               json_to_py(o.data), json_to_py(o.label))

\* json.dump of the dict of a scenario, and json.load of the object
scenario_to_json(d) ==
    [keys |-> d.keys, label |-> py_to_json(d.label),
     actions |-> [i \in 1 .. Len(d.actions) |-> action_to_json(d.actions[i])]]

scenario_of_json(o) ==
    ScenarioDict(o.keys, json_to_py(o.label),
                 [i \in 1 .. Len(o.actions) |-> action_of_json(o.actions[i])])

----------------------------------------------------------------------------
(* ScenariosManager *)

DEFAULT_STORAGE_PATH == "/etc/cstbox/home-automation-scenarios.cfg"

\* The store with no scenario, and a document with no key
EmptyMap == [id \in {} |-> NoScenario]
EmptyDoc == [id \in {} |-> scenario_to_json(as_dict(NoScenario))]

\* m[id] = s
MapSet(m, id, s) == [k \in DOMAIN m \cup {id} |-> IF k = id THEN s ELSE m[k]]

\* del m[id]
MapDel(m, id) == [k \in DOMAIN m \ {id} |-> m[k]]

\* What a path holds: nothing, a directory, a file that is no JSON text, or a
\* file holding a JSON document
Absent == [kind |-> "absent", doc |-> EmptyDoc]
Directory == [kind |-> "dir", doc |-> EmptyDoc]
NotJson == [kind |-> "text", doc |-> EmptyDoc]
JsonFile(doc) == [kind |-> "json", doc |-> doc]

\* os.path.isfile(path)
isfile(path) == path \in DOMAIN files /\ files[path].kind \in {"text", "json"}

\* if not path: path = self.DEFAULT_STORAGE_PATH
resolve(path) == IF path = "" THEN DEFAULT_STORAGE_PATH ELSE path

\* The document save_scenarios writes: {k: v.as_dict()}, dumped
dump_scenarios(m) == [k \in DOMAIN m |-> scenario_to_json(as_dict(m[k]))]

\* The orders in which a dict with these keys may be iterated
Orders(keys) ==
    {o \in [1 .. Cardinality(keys) -> keys] : \A k \in keys : \E i \in DOMAIN o : o[i] = k}

\* The loop of load_scenarios over the items of the document, in the order
\* given, into the map m; the first failure ends it: [err, map]
RECURSIVE load_items(_, _, _)
load_items(doc, order, m) ==
    IF order = <<>> THEN [err |-> "none", map |-> m]
    ELSE LET s == from_dict(scenario_of_json(doc[Head(order)]))
         IN  IF s.err # "none" THEN [err |-> s.err, map |-> m]
             ELSE load_items(doc, Tail(order), MapSet(m, Head(order), s.val))

----------------------------------------------------------------------------
(* Inputs of the store operations *)

Ids == {"s00", "s01"}
IdInputs == Ids \cup {""}

OUT_PATH == "/tmp/scenarios-out.cfg"
TMP_DIR == "/tmp"
PathInputs == {"", OUT_PATH, TMP_DIR}

ScenarioA == Scenario(S("scenario 1"), <<>>)
ScenarioB ==
    Scenario(S("test scenario 01"),
             << BasicAction(S("switch"), S("living"), I(0), S("switch off living lights")).val,
                BasicAction(S("dim"), S("bedroom"), I(50), None).val >>)

\* Objects passed to add_scenario: t is the type, v the value of a Scenario
ScenarioObj(s) == [t |-> "Scenario", truthy |-> TRUE, v |-> s]
ScenarioInputs ==
    { ScenarioObj(ScenarioA), ScenarioObj(ScenarioB),
      [t |-> "NoneType", truthy |-> FALSE, v |-> NoScenario],
      [t |-> "str", truthy |-> TRUE, v |-> NoScenario] }

\* What the default path holds at the start: nothing, a file that is no JSON,
\* a document written by save_scenarios, a document whose second action
\* leaves its label out, and a document whose second scenario has no actions
FixtureFiles ==
    { Absent,
      NotJson,
      JsonFile(dump_scenarios([id \in Ids |-> IF id = "s00" THEN ScenarioA ELSE ScenarioB])),
      JsonFile([id \in {"s01"} |->
                  scenario_to_json(ScenarioDict(ScenarioKeys, S("test scenario 01"),
                                                <<SwitchOffLiving, DimBedroom>>))]),
      JsonFile([id \in Ids |->
                  IF id = "s00" THEN scenario_to_json(as_dict(ScenarioA))
                  ELSE scenario_to_json(ScenarioDict({"label"}, S("test scenario 01"), <<>>))]) }

----------------------------------------------------------------------------
(* Operations of the store *)

scenarioVars == <<scenario, events, pc, idx, other>>

\* ScenariosManager.get_scenario(id_)
get_scenario(id_) ==
    /\ pc = "idle"
    /\ before' = scenarios
    /\ result' = Result("get_scenario", IF id_ \in DOMAIN scenarios THEN "none" ELSE "KeyError",
                        "", id_, "", NoAction)
    /\ UNCHANGED <<scenarios, files, scenarioVars, ret, wsVars>>

\* Mutant of add_scenario: an id already in the store is refused
add_scenario_unique(id_, obj) ==
    /\ pc = "idle"
    /\ before' = scenarios
    /\ IF id_ = "" \/ ~obj.truthy \/ id_ \in DOMAIN scenarios
       THEN /\ result' = Result("add_scenario", "ValueError", "", id_, "", NoAction)
            /\ UNCHANGED scenarios
       ELSE IF obj.t # "Scenario"
       THEN /\ result' = Result("add_scenario", "TypeError", "", id_, "", NoAction)
            /\ UNCHANGED scenarios
       ELSE /\ scenarios' = MapSet(scenarios, id_, obj.v)
            /\ result' = Result("add_scenario", "none", "", id_, "", NoAction)
    /\ UNCHANGED <<files, scenarioVars, ret, wsVars>>

\* ScenariosManager.add_scenario(id_, scenario)
add_scenario(id_, obj) ==
    /\ pc = "idle"
    /\ before' = scenarios
    /\ IF id_ = "" \/ ~obj.truthy
       THEN /\ result' = Result("add_scenario", "ValueError", "", id_, "", NoAction)
            /\ UNCHANGED scenarios
       ELSE IF obj.t # "Scenario"
       THEN /\ result' = Result("add_scenario", "TypeError", "", id_, "", NoAction)
            /\ UNCHANGED scenarios
       ELSE /\ scenarios' = MapSet(scenarios, id_, obj.v)
            /\ result' = Result("add_scenario", "none", "", id_, "", NoAction)
    /\ UNCHANGED <<files, scenarioVars, ret, wsVars>>

\* Mutant of remove_scenario: an unknown id is passed over in silence
remove_scenario_pop(id_) ==
    /\ pc = "idle"
    /\ before' = scenarios
    /\ IF id_ = ""
       THEN /\ result' = Result("remove_scenario", "ValueError", "", id_, "", NoAction)
            /\ UNCHANGED scenarios
       ELSE /\ scenarios' = MapDel(scenarios, id_)
            /\ result' = Result("remove_scenario", "none", "", id_, "", NoAction)
    /\ UNCHANGED <<files, scenarioVars, ret, wsVars>>

\* ScenariosManager.remove_scenario(id_)
remove_scenario(id_) ==
    /\ pc = "idle"
    /\ before' = scenarios
    /\ IF id_ = ""
       THEN /\ result' = Result("remove_scenario", "ValueError", "", id_, "", NoAction)
            /\ UNCHANGED scenarios
       ELSE IF id_ \notin DOMAIN scenarios
       THEN /\ result' = Result("remove_scenario", "KeyError", "", id_, "", NoAction)
            /\ UNCHANGED scenarios
       ELSE /\ scenarios' = MapDel(scenarios, id_)
            /\ result' = Result("remove_scenario", "none", "", id_, "", NoAction)
    /\ UNCHANGED <<files, scenarioVars, ret, wsVars>>

\* get_scenario(id_).update(d): Scenario.update, on a scenario of the store
update(id_, d) ==
    /\ pc = "idle"
    /\ before' = scenarios
    /\ IF id_ \notin DOMAIN scenarios
       THEN /\ result' = Result("get_scenario", "KeyError", "", id_, "", NoAction)
            /\ UNCHANGED scenarios
       ELSE LET new_s == from_dict(d)
            IN  /\ result' = Result("update", new_s.err, "", id_, "", NoAction)
                /\ IF new_s.err # "none"
                   THEN UNCHANGED scenarios
                   ELSE scenarios' = MapSet(scenarios, id_, new_s.val)
    /\ UNCHANGED <<files, scenarioVars, ret, wsVars>>

\* Mutant of load_scenarios: the map is emptied before the path is checked
load_scenarios_clear_first(path) ==
    /\ pc = "idle"
    /\ before' = scenarios
    /\ IF ~isfile(resolve(path))
       THEN /\ result' = Result("load_scenarios", "ValueError", "path", "", path, NoAction)
            /\ scenarios' = EmptyMap
       ELSE IF files[resolve(path)].kind = "text"
       THEN /\ result' = Result("load_scenarios", "ValueError", "json", "", path, NoAction)
            /\ scenarios' = EmptyMap
       ELSE \E order \in Orders(DOMAIN files[resolve(path)].doc) :
                LET r == load_items(files[resolve(path)].doc, order, EmptyMap)
                IN  /\ result' = Result("load_scenarios", r.err,
                                        IF r.err = "none" THEN "" ELSE "entry",
                                        "", path, NoAction)
                    /\ scenarios' = r.map
    /\ UNCHANGED <<files, scenarioVars, ret, wsVars>>

\* Mutant of load_scenarios: the entries of the document are merged into the map
load_scenarios_merge(path) ==
    /\ pc = "idle"
    /\ before' = scenarios
    /\ IF ~isfile(resolve(path))
       THEN /\ result' = Result("load_scenarios", "ValueError", "path", "", path, NoAction)
            /\ UNCHANGED scenarios
       ELSE IF files[resolve(path)].kind = "text"
       THEN /\ result' = Result("load_scenarios", "ValueError", "json", "", path, NoAction)
            /\ UNCHANGED scenarios
       ELSE \E order \in Orders(DOMAIN files[resolve(path)].doc) :
                LET r == load_items(files[resolve(path)].doc, order, scenarios)
                IN  /\ result' = Result("load_scenarios", r.err,
                                        IF r.err = "none" THEN "" ELSE "entry",
                                        "", path, NoAction)
                    /\ scenarios' = r.map
    /\ UNCHANGED <<files, scenarioVars, ret, wsVars>>

\* ScenariosManager.load_scenarios(path): the path check, then the map is
\* emptied, the file parsed and its items stored one by one
load_scenarios(path) ==
    /\ pc = "idle"
    /\ before' = scenarios
    /\ IF ~isfile(resolve(path))
       THEN /\ result' = Result("load_scenarios", "ValueError", "path", "", path, NoAction)
            /\ UNCHANGED scenarios
       ELSE IF files[resolve(path)].kind = "text"
       THEN /\ result' = Result("load_scenarios", "ValueError", "json", "", path, NoAction)
            /\ scenarios' = EmptyMap
       ELSE \E order \in Orders(DOMAIN files[resolve(path)].doc) :
                LET r == load_items(files[resolve(path)].doc, order, EmptyMap)
                IN  /\ result' = Result("load_scenarios", r.err,
                                        IF r.err = "none" THEN "" ELSE "entry",
                                        "", path, NoAction)
                    /\ scenarios' = r.map
    /\ UNCHANGED <<files, scenarioVars, ret, wsVars>>

\* ScenariosManager.save_scenarios(path): opening a directory for writing
\* raises IOError, otherwise the file holds the dumped document
save_scenarios(path) ==
    /\ pc = "idle"
    /\ before' = scenarios
    /\ IF files[resolve(path)].kind = "dir"
       THEN /\ result' = Result("save_scenarios", "IOError", "", "", path, NoAction)
            /\ UNCHANGED files
       ELSE /\ files' = [files EXCEPT ![resolve(path)] = JsonFile(dump_scenarios(scenarios))]
            /\ result' = Result("save_scenarios", "none", "", "", path, NoAction)
    /\ UNCHANGED <<scenarios, scenarioVars, ret, wsVars>>

GetScenario == \E id_ \in IdInputs : get_scenario(id_)
AddScenario == \E id_ \in IdInputs, obj \in ScenarioInputs : add_scenario(id_, obj)
RemoveScenario == \E id_ \in IdInputs : remove_scenario(id_)
Update == \E id_ \in Ids, d \in DefInputs : update(id_, d)
LoadScenarios == \E path \in PathInputs : load_scenarios(path)
SaveScenarios == \E path \in PathInputs : save_scenarios(path)

Init ==
    /\ scenarios = EmptyMap
    /\ before = EmptyMap
    /\ \E f \in FixtureFiles :
          files = [p \in {DEFAULT_STORAGE_PATH, OUT_PATH, TMP_DIR} |->
                      IF p = DEFAULT_STORAGE_PATH THEN f
                      ELSE IF p = OUT_PATH THEN Absent ELSE Directory]
    /\ scenario = NoScenario
    /\ events = <<>>
    /\ pc = "idle"
    /\ idx = 1
    /\ other = NoScenario
    /\ result = NoResult
    /\ ret = NoRet
    /\ handlers = <<>>
    /\ settings = <<>>
    /\ last_save = ""

Next ==
    \/ GetScenario
    \/ AddScenario
    \/ RemoveScenario
    \/ Update
    \/ LoadScenarios
    \/ SaveScenarios

Spec == Init /\ [][Next]_vars

----------------------------------------------------------------------------
(* Claims about ScenariosManager, checked under Spec *)

\* The document at the path of the last call
DocAt(r) == files[resolve(r.path)].doc

\* Two stores hold the same ids and, under each id, an equal label and an
\* action sequence equal field by field, in the same order
SameStore(m1, m2) ==
    /\ DOMAIN m1 = DOMAIN m2
    /\ \A id \in DOMAIN m1 :
          /\ m1[id].label = m2[id].label
          /\ Len(m1[id].actions) = Len(m2[id].actions)
          /\ \A i \in 1 .. Len(m1[id].actions) :
                /\ m1[id].actions[i].verb = m2[id].actions[i].verb
                /\ m1[id].actions[i].target = m2[id].actions[i].target
                /\ m1[id].actions[i].data = m2[id].actions[i].data
                /\ m1[id].actions[i].label = m2[id].actions[i].label

\* A load of the path the step before saved to
LoadAfterSave ==
    /\ result.op = "save_scenarios" /\ result.err = "none"
    /\ result'.op = "load_scenarios"
    /\ resolve(result'.path) = resolve(result.path)

\* A save that succeeds, right after a load that succeeded
SaveAfterLoad ==
    /\ result.op = "load_scenarios" /\ result.err = "none"
    /\ result'.op = "save_scenarios" /\ result'.err = "none"

\* Every scenario of the document holds exactly a label and actions, and
\* every action all four keys, with a label that is not empty
CompleteDoc(doc) ==
    \A id \in DOMAIN doc :
        /\ doc[id].keys = ScenarioKeys
        /\ \A i \in 1 .. Len(doc[id].actions) :
              /\ doc[id].actions[i].keys = ActionKeys
              /\ Truthy(json_to_py(doc[id].actions[i].label))

C7_LoadBadPath ==
    (result.op = "load_scenarios" /\ ~isfile(resolve(result.path))) =>
        /\ result.err = "ValueError"
        /\ result.why = "path"
        /\ scenarios = before

\* C7 witness: a load of a path that is no file, on a store that holds a scenario
C7_Witness ==
    /\ result.op = "load_scenarios" /\ result.err = "ValueError" /\ result.why = "path"
    /\ before # EmptyMap
    /\ scenarios = before

\* C8: a load that fails after the path check (the file is no JSON, or an
\* entry or an action of it is invalid) leaves the map as it was before.
C8_FailedLoadKeepsMap ==
    (result.op = "load_scenarios" /\ result.err # "none" /\ isfile(resolve(result.path))) =>
        scenarios = before

\* C9: a load that succeeds replaces the map: the ids of the store are
\* the top-level keys of the document, whatever the store held before.
C9_LoadReplaces ==
    (result.op = "load_scenarios" /\ result.err = "none") =>
        /\ DOMAIN scenarios = DOMAIN DocAt(result)
        /\ \A id \in DOMAIN before \ DOMAIN DocAt(result) : id \notin DOMAIN scenarios

\* C9 witness: the store held an id that the loaded document has not
C9_Witness ==
    /\ result.op = "load_scenarios" /\ result.err = "none"
    /\ DOMAIN DocAt(result) # {}
    /\ DOMAIN before \ DOMAIN DocAt(result) # {}

\* C10: get_scenario on an id not in the store raises KeyError (NotFound);
\* remove_scenario on an id not in the store raises KeyError and on an empty
\* id ValueError (InvalidArgument), and both leave the map unchanged.
C10_UnknownId ==
    /\ (result.op = "get_scenario" /\ result.id \notin DOMAIN before) =>
          result.err = "KeyError" /\ scenarios = before
    /\ (result.op = "remove_scenario" /\ result.id # "" /\ result.id \notin DOMAIN before) =>
          result.err = "KeyError" /\ scenarios = before
    /\ (result.op = "remove_scenario" /\ result.id = "") =>
          result.err = "ValueError" /\ scenarios = before

\* C10 witness: remove_scenario of an unknown id on a store that holds another
C10_Witness ==
    /\ result.op = "remove_scenario" /\ result.err = "KeyError"
    /\ result.id \in Ids
    /\ before # EmptyMap
    /\ scenarios = before

----------------------------------------------------------------------------
(* The listing of the store: ScenariosManager.scenarios *)

ListingIds == {"s00", "s01", "s02"}

\* The characters of an id, as code points
Chars(id) ==
    CASE id = "s00" -> <<115, 48, 48>>
      [] id = "s01" -> <<115, 48, 49>>
      [] id = "s02" -> <<115, 48, 50>>
      [] OTHER -> <<>>

\* a < b on strings: character by character, a proper prefix first
RECURSIVE seq_lt(_, _)
seq_lt(a, b) ==
    IF b = <<>> THEN FALSE
    ELSE IF a = <<>> THEN TRUE
    ELSE IF Head(a) # Head(b) THEN Head(a) < Head(b)
    ELSE seq_lt(Tail(a), Tail(b))

str_lt(a, b) == seq_lt(Chars(a), Chars(b))

\* sorted(keys): the least key first, then the others sorted
RECURSIVE sorted(_)
sorted(keys) ==
    IF keys = {} THEN <<>>
    ELSE LET least == CHOOSE k \in keys : \A j \in keys \ {k} : str_lt(k, j)
         IN  <<least>> \o sorted(keys \ {least})

\* Mutant of scenarios_property: the items come in descending order of id
scenarios_property_reversed(m) ==
    LET keys == sorted(DOMAIN m)
    IN  [i \in 1 .. Len(keys) |-> <<keys[Len(keys) + 1 - i], m[keys[Len(keys) + 1 - i]]>>]

\* ScenariosManager.scenarios: sorted(self._scenarios.items()). The ids of a
\* dict differ, so the order of the pairs is the order of their ids.
scenarios_property(m) ==
    LET keys == sorted(DOMAIN m)
    IN  [i \in 1 .. Len(keys) |-> <<keys[i], m[keys[i]]>>]

\* mgr.scenarios
ListScenarios ==
    /\ pc = "idle"
    /\ before' = scenarios
    /\ ret' = scenarios_property(scenarios)
    /\ result' = Result("scenarios", "none", "", "", "", NoAction)
    /\ UNCHANGED <<scenarios, files, scenarioVars, wsVars>>

AddScenarioListing ==
    \E id_ \in ListingIds, obj \in {ScenarioObj(ScenarioA), ScenarioObj(ScenarioB)} :
        add_scenario(id_, obj)
RemoveScenarioListing == \E id_ \in ListingIds : remove_scenario(id_)
LoadScenariosListing == load_scenarios("")

\* The default path holds a document with the ids s02 and s00
InitListing ==
    /\ scenarios = EmptyMap
    /\ before = EmptyMap
    /\ files = [p \in {DEFAULT_STORAGE_PATH, OUT_PATH, TMP_DIR} |->
                  IF p = DEFAULT_STORAGE_PATH
                  THEN JsonFile(dump_scenarios([id \in {"s02", "s00"} |->
                                   IF id = "s00" THEN ScenarioA ELSE ScenarioB]))
                  ELSE IF p = OUT_PATH THEN Absent ELSE Directory]
    /\ scenario = NoScenario
    /\ events = <<>>
    /\ pc = "idle"
    /\ idx = 1
    /\ other = NoScenario
    /\ result = NoResult
    /\ ret = NoRet
    /\ handlers = <<>>
    /\ settings = <<>>
    /\ last_save = ""

NextListing ==
    \/ AddScenarioListing
    \/ RemoveScenarioListing
    \/ LoadScenariosListing
    \/ ListScenarios

SpecListing == InitListing /\ [][NextListing]_vars

\* The place of an id in ascending order
IdRank(id) == IF id = "s00" THEN 0 ELSE IF id = "s01" THEN 1 ELSE 2

\* C11: after any sequence of add_scenario, remove_scenario and load the
\* listing holds every (id, Scenario) pair of the store exactly once, in
\* ascending order of id.
C11_ListingSorted ==
    result.op = "scenarios" =>
        /\ Len(ret) = Cardinality(DOMAIN scenarios)
        /\ \A id \in DOMAIN scenarios :
              \E i \in 1 .. Len(ret) :
                  /\ ret[i] = <<id, scenarios[id]>>
                  /\ \A j \in 1 .. Len(ret) : ret[j][1] = id => j = i
        /\ \A i, j \in 1 .. Len(ret) : i < j => IdRank(ret[i][1]) < IdRank(ret[j][1])

\* C11 witness: a listing of three scenarios, s00 first and s02 last
C11_Witness ==
    /\ result.op = "scenarios"
    /\ Len(ret) = 3
    /\ ret[1][1] = "s00" /\ ret[2][1] = "s01" /\ ret[3][1] = "s02"
    /\ ret[1][2] # ret[3][2]

----------------------------------------------------------------------------
(* Further claims about ScenariosManager, checked under Spec *)

\* The Scenario objects among the inputs of add_scenario
ValidScenarioInputs == {obj \in ScenarioInputs : obj.t = "Scenario"}

\* C12: add_scenario(id, s) with a valid id and a Scenario always succeeds,
\* also when the id is already in the store: afterwards the store holds s
\* under id (what get_scenario(id) returns), the id is a key of the map once,
\* and the entries of all other ids are as they were.
C12_AddScenarioOverwrites ==
    [][\A id_ \in Ids, obj \in ValidScenarioInputs :
          add_scenario(id_, obj) =>
              /\ result'.err = "none"
              /\ DOMAIN scenarios' = DOMAIN scenarios \cup {id_}
              /\ scenarios'[id_] = obj.v
              /\ \A k \in DOMAIN scenarios \ {id_} : scenarios'[k] = scenarios[k]]_vars

\* C12 witness: add_scenario replaced the scenario of an id with another one,
\* in a store that holds a second id
C12_Witness ==
    /\ result.op = "add_scenario" /\ result.err = "none"
    /\ result.id \in DOMAIN before
    /\ scenarios[result.id] # before[result.id]
    /\ DOMAIN scenarios = Ids
    /\ \A k \in Ids \ {result.id} : scenarios[k] = before[k]

----------------------------------------------------------------------------
(* Further claims about Scenario and BasicAction, checked under SpecScenario *)

\* The BasicAction objects the inputs can build
ValidActionObjs ==
    {ActionObj(BasicAction(in[1], in[2], in[3], in[4]).val) :
        in \in {x \in ActionInputs : BasicAction(x[1], x[2], x[3], x[4]).err = "none"}}

\* add_action(x) with a BasicAction: x is the last action, the others are as
\* they were
AppendsLast(x) ==
    /\ result'.err = "none"
    /\ scenario'.label = scenario.label
    /\ Len(scenario'.actions) = Len(scenario.actions) + 1
    /\ scenario'.actions[Len(scenario'.actions)] = x.v
    /\ \A i \in 1 .. Len(scenario.actions) : scenario'.actions[i] = scenario.actions[i]

\* C13 as stated: a valid action is appended as the last one; None fails with
\* ValueError, any argument that is no BasicAction with TypeError, and both
\* leave the action sequence unchanged.
C13_AddActionAnyNonAction ==
    [][/\ \A x \in ValidActionObjs : add_action(x) => AppendsLast(x)
       /\ add_action(NoneObj) => result'.err = "ValueError" /\ scenario' = scenario
       /\ \A x \in {StrObj, EmptyStrObj} :
             add_action(x) => result'.err = "TypeError" /\ scenario' = scenario]_vars

\* C13 amended: a valid action is appended as the last one and the others
\* keep their places; None and any other false argument ('' here) fail with
\* ValueError, a true argument that is no BasicAction fails with TypeError,
\* and all failures leave the action sequence unchanged.
C13_AddAction ==
    [][/\ \A x \in ValidActionObjs : add_action(x) => AppendsLast(x)
       /\ \A x \in {NoneObj, EmptyStrObj} :
             add_action(x) => result'.err = "ValueError" /\ scenario' = scenario
       /\ add_action(StrObj) => result'.err = "TypeError" /\ scenario' = scenario]_vars

\* C13 witness: a third action was appended behind two others
C13_Witness ==
    /\ result.op = "add_action" /\ result.err = "none"
    /\ Len(scenario.actions) = 3
    /\ scenario.actions[3] = result.action
    /\ scenario.actions[1] # result.action
    /\ scenario.actions[2] # result.action

\* C14: scenario.update(actions) with an empty list of actions raises
\* ValueError and leaves the scenario unchanged.
C14_UpdateEmptyList ==
    [][Scenario_update(ListObj(<<>>)) =>
          /\ result'.err = "ValueError"
          /\ scenario' = scenario]_vars

\* C15: scenario.update(actions) with a non-empty list of actions succeeds,
\* makes the actions of the scenario equal to that list and keeps the label.
C15_UpdateList ==
    [][\A l \in ListInputs \ {<<>>} :
          Scenario_update(ListObj(l)) =>
              /\ result'.err = "none"
              /\ scenario'.actions = l
              /\ scenario'.label = scenario.label]_vars

\* A definition that lacks a required key or holds an action without a
\* verb or a target
DefBroken(d) ==
    \/ ~(ScenarioKeys \subseteq d.keys)
    \/ \E i \in 1..Len(d.actions) :
          \/ ~({"verb", "target"} \subseteq d.actions[i].keys)
          \/ ~Truthy(d.actions[i].verb)
          \/ ~Truthy(d.actions[i].target)

\* The action a scenario holds is the one the definition describes
SameAsDef(a, ad) ==
    /\ a.verb = ad.verb
    /\ a.target = ad.target
    /\ a.data = dict_get(ad, "data")
    /\ Truthy(dict_get(ad, "label")) => a.label = ad.label

\* C16: scenario.update(definition) replaces label and actions together: on
\* success both are those of the definition, and a definition that lacks a key
\* or holds an invalid action fails and leaves label and actions as they were.
C16_UpdateFromDefinition ==
    [][\A d \in DefInputs :
          Scenario_update(DictObj(d)) =>
              /\ DefBroken(d) => result'.err # "none"
              /\ IF result'.err = "none"
                 THEN /\ scenario'.label = d.label
                      /\ Len(scenario'.actions) = Len(d.actions)
                      /\ \A i \in 1..Len(d.actions) :
                            SameAsDef(scenario'.actions[i], d.actions[i])
                 ELSE scenario' = scenario]_vars

C16_Witness ==
    /\ result.op = "update"
    /\ result.why = "dict"
    /\ result.err = "none"
    /\ scenario.label = S("test scenario 01")
    /\ Len(scenario.actions) = 2
    /\ scenario.actions[2].label = S("dim bedroom 50%")
    /\ scenario = other

\* C17: scenario.clear() succeeds, leaves the scenario without actions and
\* keeps its label.
C17_ClearEmptiesActions ==
    [][Scenario_clear =>
          /\ result'.err = "none"
          /\ scenario'.actions = <<>>
          /\ scenario'.label = scenario.label]_vars

\* C18: changing the list obtained from scenario.actions does not change the
\* actions the scenario holds.
C18_ActionsNotAliased ==
    [][(ActionsAppend \/ ActionsPop) => scenario'.actions = scenario.actions]_vars

\* The arguments of the last construction: non-empty verb and target, no label
NoLabelGiven ==
    /\ result.op = "BasicAction"
    /\ pc = "done"
    /\ Truthy(result.action.verb)
    /\ Truthy(result.action.target)
    /\ ~Truthy(result.action.label)

\* C19: constructing an action with a verb, a target and no label derives the
\* label: "<verb> <target> on" or "... off" for switch, "<verb> <target> <n>%"
\* for dim, and for any other verb the construction succeeds whatever the data,
\* None included, with a label made from it.
C19_DerivedLabel ==
    NoLabelGiven =>
        LET a == result.action
            head == a.verb.s \o " " \o a.target.s \o " "
        IN  CASE a.verb = S("switch") ->
                    /\ result.err = "none"
                    /\ ret.label = S(head \o (IF Truthy(a.data) THEN "on" ELSE "off"))
              [] a.verb = S("dim") ->
                    a.data.k = "int" =>
                        /\ result.err = "none"
                        /\ ret.label = S(head \o IntToStr(a.data.i) \o "%")
              [] OTHER ->
                    /\ result.err = "none"
                    /\ ret.label.k = "str"

----------------------------------------------------------------------------
(* The actions of the scenarios of the store, checked under Spec            *)

HasVerbAndTarget(a) == Truthy(a.verb) /\ Truthy(a.target)

\* C20: every action of every scenario of the store has a non-empty verb and
\* a non-empty target, and an update whose definition holds an action without
\* a verb or a target fails and changes no scenario of the store.
C20_NoActionWithoutVerbTarget ==
    /\ [](\A id_ \in DOMAIN scenarios :
            \A i \in 1..Len(scenarios[id_].actions) :
                HasVerbAndTarget(scenarios[id_].actions[i]))
    /\ [][\A id_ \in Ids, d \in DefInputs :
              (update(id_, d) /\ id_ \in DOMAIN scenarios /\ DefBroken(d)) =>
                  /\ result'.err # "none"
                  /\ scenarios' = scenarios]_vars

C20_Witness ==
    /\ result.op = "update"
    /\ result.err = "ValueError"
    /\ result.id \in DOMAIN scenarios
    /\ scenarios[result.id].actions # <<>>
    /\ scenarios = before

----------------------------------------------------------------------------
(* The web service pycstbox.webservices.services.homeautomation: every      *)
(* request is served by a handler of its own, whose initialize builds a     *)
(* ScenariosManager and loads it from the configured path. Handlers of      *)
(* requests in progress at the same time share nothing but the files.       *)

Handlers == {"h1", "h2"}
NoHandler == ""

\* A handler: pc is "idle" before initialize, "ready" once the manager is
\* loaded, "done" once the reply is complete; mgr is _scenarios_mgr._scenarios;
\* status is the HTTP status of the reply; op and id name the request served
Handler(pc_, mgr, status, op, id) ==
    [pc |-> pc_, mgr |-> mgr, status |-> status, op |-> op, id |-> id]

\* Values of settings['config_path']: "" stands for a missing key
CONFIG_PATH == "/etc/cstbox/scenarios.cfg"
SettingsInputs == {[config_path |-> ""], [config_path |-> CONFIG_PATH]}

\* The ids of the requests, and the scenarios of the configuration file
WsIds == {"s01", "s02", "s03"}
WsFixture == [id \in {"s01", "s02"} |-> IF id = "s01" THEN ScenarioB ELSE ScenarioA]

\* Request bodies: a text that is no JSON, or the JSON text of a definition
NotJsonBody == [kind |-> "text", doc |-> scenario_to_json(as_dict(NoScenario))]
JsonBody(d) == [kind |-> "json", doc |-> scenario_to_json(d)]

CopyDef ==
    ScenarioDict(ScenarioKeys, S("copy of test scenario 01"), <<SwitchOffLiving, DimBedroom>>)
NoActionsDef == ScenarioDict({"label"}, S("test scenario 03"), <<>>)

BodyInputs == {NotJsonBody, JsonBody(CopyDef), JsonBody(NoActionsDef)}

\* Bound on the events the event manager has received
MaxEvents == 2

\* What the requests leave alone: the scenario under test and the store of
\* the unit tests
wsFrame == <<scenario, pc, idx, other, scenarios, before, result, ret>>

\* BaseHandler.initialize: a new ScenariosManager, loaded from
\* settings.get('config_path', None). An exception ends the request (500).
initialize(h) ==
    LET path == settings.config_path
    IN  /\ handlers[h].pc \in {"idle", "done"}
        /\ IF ~isfile(resolve(path))
           THEN handlers' = [handlers EXCEPT ![h] = Handler("done", EmptyMap, 500, "", "")]
           ELSE IF files[resolve(path)].kind = "text"
           THEN handlers' = [handlers EXCEPT ![h] = Handler("done", EmptyMap, 500, "", "")]
           ELSE \E order \in Orders(DOMAIN files[resolve(path)].doc) :
                    LET r == load_items(files[resolve(path)].doc, order, EmptyMap)
                    IN  handlers' = [handlers EXCEPT ![h] =
                                        IF r.err = "none"
                                        THEN Handler("ready", r.map, 200, "", "")
                                        ELSE Handler("done", r.map, 500, "", "")]
        /\ UNCHANGED <<files, events, settings, last_save, wsFrame>>

\* Mutant of saved: the scenarios of the store are merged into the document
\* the file holds
saved_merge(mgr, path) ==
    IF files[resolve(path)].kind = "dir" THEN [err |-> "IOError", files |-> files]
    ELSE [err |-> "none",
          files |-> [files EXCEPT ![resolve(path)] =
                        JsonFile([k \in DOMAIN mgr \cup DOMAIN @.doc |->
                                     IF k \in DOMAIN mgr
                                     THEN scenario_to_json(as_dict(mgr[k]))
                                     ELSE @.doc[k]])]]

\* save_scenarios(path) of a manager holding mgr: [err, files], files being
\* the file system afterwards. The file is written as a whole.
saved(mgr, path) ==
    IF files[resolve(path)].kind = "dir" THEN [err |-> "IOError", files |-> files]
    ELSE [err |-> "none",
          files |-> [files EXCEPT ![resolve(path)] = JsonFile(dump_scenarios(mgr))]]

\* The end of do_put and delete: self._scenarios_mgr.save_scenarios(), on the
\* manager now holding mgr
save_and_reply(h, mgr, op, scen_id) ==
    LET w == saved(mgr, "")
    IN  /\ files' = w.files
        /\ IF w.err = "none"
           THEN /\ handlers' = [handlers EXCEPT ![h] = Handler("done", mgr, 200, op, scen_id)]
                /\ last_save' = h
           ELSE /\ handlers' = [handlers EXCEPT ![h] = Handler("done", mgr, 500, op, scen_id)]
                /\ UNCHANGED last_save

\* A reply without any change of the manager or of the files
reply(h, status, op, scen_id) ==
    /\ handlers' = [handlers EXCEPT ![h] = Handler("done", @.mgr, status, op, scen_id)]
    /\ UNCHANGED <<files, last_save>>

\* ScenarioSettings.do_get(scen_id)
settings_do_get(h, scen_id) ==
    /\ handlers[h].pc = "ready"
    /\ reply(h, IF scen_id \in DOMAIN handlers[h].mgr THEN 200 ELSE 404, "get", scen_id)
    /\ UNCHANGED <<events, settings, wsFrame>>

\* ScenarioSettings.do_put(scen_id), the request holding body
do_put(h, scen_id, body) ==
    /\ handlers[h].pc = "ready"
    /\ IF scen_id \notin DOMAIN handlers[h].mgr
       THEN reply(h, 404, "put", scen_id)
       ELSE IF body.kind # "json"
       THEN reply(h, 400, "put", scen_id)
       ELSE LET new_s == from_dict(scenario_of_json(body.doc))
            IN  IF new_s.err # "none"
                THEN reply(h, 500, "put", scen_id)
                ELSE save_and_reply(h, MapSet(handlers[h].mgr, scen_id, new_s.val),
                                    "put", scen_id)
    /\ UNCHANGED <<events, settings, wsFrame>>

\* ScenarioSettings.delete(scen_id)
delete(h, scen_id) ==
    /\ handlers[h].pc = "ready"
    /\ IF scen_id \notin DOMAIN handlers[h].mgr
       THEN reply(h, 404, "delete", scen_id)
       ELSE save_and_reply(h, MapDel(handlers[h].mgr, scen_id), "delete", scen_id)
    /\ UNCHANGED <<events, settings, wsFrame>>

\* The events Scenario.execute hands to the event manager, oldest first
executed(s) == [i \in 1 .. Len(s.actions) |-> BasicAction_execute(s.actions[i])]

\* ScenarioExecution.do_get(scen_id), which do_post calls
execution_do_get(h, scen_id) ==
    /\ handlers[h].pc = "ready"
    /\ IF scen_id \notin DOMAIN handlers[h].mgr
       THEN /\ reply(h, 404, "execute", scen_id)
            /\ UNCHANGED events
       ELSE /\ Len(events) + Len(handlers[h].mgr[scen_id].actions) <= MaxEvents
            /\ events' = events \o executed(handlers[h].mgr[scen_id])
            /\ reply(h, 200, "execute", scen_id)
    /\ UNCHANGED <<settings, wsFrame>>

Initialize == \E h \in Handlers : initialize(h)
SettingsGet == \E h \in Handlers, scen_id \in WsIds : settings_do_get(h, scen_id)
SettingsPut == \E h \in Handlers, scen_id \in WsIds, body \in BodyInputs : do_put(h, scen_id, body)
SettingsDelete == \E h \in Handlers, scen_id \in WsIds : delete(h, scen_id)
Execution == \E h \in Handlers, scen_id \in WsIds : execution_do_get(h, scen_id)

\* The service starts with its settings and the configuration file in place
InitWS ==
    /\ settings \in SettingsInputs
    /\ files = [p \in {DEFAULT_STORAGE_PATH, CONFIG_PATH} |->
                   IF p = resolve(settings.config_path)
                   THEN JsonFile(dump_scenarios(WsFixture)) ELSE Absent]
    /\ handlers = [h \in Handlers |-> Handler("idle", EmptyMap, 0, "", "")]
    /\ last_save = NoHandler
    /\ events = <<>>
    /\ scenario = NoScenario
    /\ pc = "idle"
    /\ idx = 1
    /\ other = NoScenario
    /\ scenarios = EmptyMap
    /\ before = EmptyMap
    /\ result = NoResult
    /\ ret = NoRet

NextWS ==
    \/ Initialize
    \/ SettingsGet
    \/ SettingsPut
    \/ SettingsDelete
    \/ Execution

SpecWS == InitWS /\ [][NextWS]_vars

----------------------------------------------------------------------------
(* Claims about the web service, checked under SpecWS *)

\* The document the handlers of later requests load their manager from
ConfigDoc == files[resolve(settings.config_path)].doc

\* C21: a PUT of a complete definition to an id the store does not hold
\* succeeds and creates the scenario, so that a later fetch of the id finds
\* it; once a delete of an id has succeeded, a later fetch does not find it.
C21_PutCreatesDeleteRemoves ==
    [][\A h \in Handlers, scen_id \in WsIds :
          /\ (do_put(h, scen_id, JsonBody(CopyDef)) /\ scen_id \notin DOMAIN handlers[h].mgr) =>
                /\ handlers'[h].status = 200
                /\ scen_id \in DOMAIN handlers'[h].mgr
                /\ scen_id \in DOMAIN ConfigDoc'
          /\ (delete(h, scen_id) /\ handlers'[h].status = 200) =>
                scen_id \notin DOMAIN ConfigDoc']_vars

\* The handler has replied 200 to a PUT or a DELETE: its manager was saved
Saved(h) ==
    /\ handlers[h].pc = "done"
    /\ handlers[h].status = 200
    /\ handlers[h].op \in {"put", "delete"}

\* C22: when two managers loaded from the same file are changed independently
\* and both saved, the file holds exactly the scenarios of the manager saved
\* last: nothing of the manager saved first survives, and nothing is merged.
C22_LastWriterWins ==
    \A h \in Handlers :
        (last_save = h /\ Saved(h)) =>
            files[DEFAULT_STORAGE_PATH] = JsonFile(dump_scenarios(handlers[h].mgr))

C22_Witness ==
    /\ settings.config_path = ""
    /\ Saved("h1") /\ handlers["h1"].op = "put" /\ handlers["h1"].id = "s01"
    /\ Saved("h2") /\ handlers["h2"].op = "delete" /\ handlers["h2"].id = "s02"
    /\ last_save = "h2"
    /\ handlers["h1"].mgr["s01"].label = S("copy of test scenario 01")
    /\ "s02" \in DOMAIN handlers["h1"].mgr
    /\ handlers["h2"].mgr = [id \in {"s01"} |-> ScenarioB]
    /\ files[DEFAULT_STORAGE_PATH].doc = dump_scenarios(handlers["h2"].mgr)
    /\ files[DEFAULT_STORAGE_PATH].doc # dump_scenarios(handlers["h1"].mgr)

\* No handler but h has served or is serving a request
Alone(h) == \A g \in Handlers \ {h} : handlers[g].pc = "idle"

\* C23: with one handler serving the requests one after the other, after a
\* settings update or delete that succeeds the persisted document is the dump
\* of the manager of the handler; a request answered 404 or 400 changes
\* neither the manager nor the document, and an execution changes neither.
C23_DocumentFollowsStore ==
    [][\A h \in Handlers :
          LET change == \/ \E scen_id \in WsIds, body \in BodyInputs : do_put(h, scen_id, body)
                        \/ \E scen_id \in WsIds : delete(h, scen_id)
              fetch == \E scen_id \in WsIds : settings_do_get(h, scen_id)
              execution == \E scen_id \in WsIds : execution_do_get(h, scen_id)
          IN  Alone(h) =>
                /\ (change /\ handlers'[h].status = 200) =>
                      ConfigDoc' = dump_scenarios(handlers'[h].mgr)
                /\ ((change \/ fetch \/ execution) /\ handlers'[h].status \in {400, 404}) =>
                      /\ handlers'[h].mgr = handlers[h].mgr
                      /\ files' = files
                /\ execution =>
                      /\ handlers'[h].mgr = handlers[h].mgr
                      /\ files' = files]_vars

====
